---- MODULE Spec2Model ----
(***************************************************************************)
(* Model of the label pipeline of src/main.py: one call of process_labels  *)
(* (manifest loading, page scanning, pagination, page composition) with    *)
(* the helpers find_matching_awb, find_clear_start_position and            *)
(* calculate_available_rows.                                               *)
(*                                                                         *)
(* Text is a sequence of one-character strings, so that strip, upper,      *)
(* substring tests and the ordering of sort keys are computed.  Lengths    *)
(* are whole PDF points.  A spreadsheet cell is a record: t = "nan" (a     *)
(* blank cell), "str" (text s) or "num" (a number of v tenths).            *)
(***************************************************************************)
EXTENDS Integers, Sequences, FiniteSets, TLC

VARIABLES
    excel_file,     \* input: the uploaded spreadsheet [columns, rows]
    pdf_files,      \* input: the uploaded PDFs, in upload order
    pc,             \* position of process_labels
    status,         \* 0 while running, then 200, 400, 404 or 500
    df,             \* the data frame after read_excel and the column renames
    row_i,          \* next row of df.iterrows()
    awb_to_items,   \* tracking number -> list of items
    all_awbs,       \* set of known tracking numbers
    pdf_i,          \* next upload to open
    page_num,       \* next page of the open upload
    all_pages,      \* page records, in scan order
    master_doc,     \* pages of the output document
    page_i,         \* next page record to compose
    matched_count,
    available_rows, \* local of the last matched page
    chunks,         \* local of the last matched page
    opened,         \* every document handle opened so far
    closed          \* every document handle closed so far

vars == <<excel_file, pdf_files, pc, status, df, row_i, awb_to_items, all_awbs,
          pdf_i, page_num, all_pages, master_doc, page_i, matched_count,
          available_rows, chunks, opened, closed>>

-----------------------------------------------------------------------------
(* Bounds of the model.                                                    *)

MaxRows == 3

MaxPdfs == 2

MaxPages == 2

MaxItems == 56

MaxAnchorY == 120

-----------------------------------------------------------------------------
(* Text.                                                                   *)

Whitespace == {" "}

LowerChars == <<"a", "b", "e", "l", "n", "o", "u">>

UpperChars == <<"A", "B", "E", "L", "N", "O", "U">>

\* Code-point order of the characters in use.
CharOrder == <<" ", ".", "0", "1", "2", "3", "5", "A", "B", "E", "L", "N",
               "O", "U", "a", "b", "c", "e", "l", "n", "o", "u">>

Ord(c) == CHOOSE i \in 1..Len(CharOrder) : CharOrder[i] = c

UpperChar(c) ==
    IF \E i \in 1..Len(LowerChars) : LowerChars[i] = c
    THEN UpperChars[CHOOSE i \in 1..Len(LowerChars) : LowerChars[i] = c]
    ELSE c

upper(s) == [i \in 1..Len(s) |-> UpperChar(s[i])]

RECURSIVE lstrip(_)
lstrip(s) == IF s # <<>> /\ Head(s) \in Whitespace THEN lstrip(Tail(s)) ELSE s

RECURSIVE rstrip(_)
rstrip(s) ==
    IF s # <<>> /\ s[Len(s)] \in Whitespace
    THEN rstrip(SubSeq(s, 1, Len(s) - 1))
    ELSE s

strip(s) == rstrip(lstrip(s))

\* Python's `a in b` on strings.
IsSubstring(a, b) ==
    \E i \in 0..(Len(b) - Len(a)) : SubSeq(b, i + 1, i + Len(a)) = a

\* Python's `a < b` on strings.
RECURSIVE StrLess(_, _)
StrLess(a, b) ==
    IF b = <<>> THEN FALSE
    ELSE IF a = <<>> THEN TRUE
    ELSE IF Ord(Head(a)) # Ord(Head(b)) THEN Ord(Head(a)) < Ord(Head(b))
    ELSE StrLess(Tail(a), Tail(b))

-----------------------------------------------------------------------------
(* Spreadsheet cells.                                                      *)

NaN == [t |-> "nan", s |-> <<>>, v |-> 0]

Str(s) == [t |-> "str", s |-> s, v |-> 0]

Num(tenths) == [t |-> "num", s |-> <<>>, v |-> tenths]

\* str(cell) of a blank or a text cell.
PyStr(cell) == IF cell.t = "nan" THEN <<"n", "a", "n">> ELSE cell.s

notna(cell) == cell.t # "nan"

Digits == <<"0", "1", "2", "3", "5">>

DigitValues == <<0, 1, 2, 3, 5>>

IsDigit(c) == \E i \in 1..Len(Digits) : Digits[i] = c

DigitValue(c) == DigitValues[CHOOSE i \in 1..Len(Digits) : Digits[i] = c]

IsIntLiteral(s) == s # <<>> /\ \A i \in 1..Len(s) : IsDigit(s[i])

RECURSIVE ParseDigits(_)
ParseDigits(s) ==
    IF s = <<>> THEN 0
    ELSE 10 * ParseDigits(SubSeq(s, 1, Len(s) - 1)) + DigitValue(s[Len(s)])

\* Division truncating towards zero, as int() of a float quotient.
TruncDiv(a, b) == IF a >= 0 THEN a \div b ELSE -((-a) \div b)

\* int(cell) raises ValueError on text that is no integer literal.
IntRaises(cell) == cell.t = "str" /\ ~IsIntLiteral(strip(cell.s))

\* int(cell) where it does not raise.
PyInt(cell) ==
    IF cell.t = "num" THEN TruncDiv(cell.v, 10) ELSE ParseDigits(strip(cell.s))

-----------------------------------------------------------------------------
(* Manifest loader.                                                        *)

col_mapping ==
    <<[target |-> "AWB/No. Tracking",
       alternatives |-> <<"AWB/No. Tracking", "AWB", "No. Tracking",
                          "Tracking Number", "Resi", "No Resi">>],
      [target |-> "MSKU",
       alternatives |-> <<"MSKU", "SKU", "Nama SKU", "Product SKU", "Master SKU">>],
      [target |-> "Jumlah",
       alternatives |-> <<"Jumlah", "Qty", "Quantity", "QTY">>]>>

required_cols == {"AWB/No. Tracking", "MSKU", "Jumlah"}

\* One pass of the rename loop for one target column.
RenameColumn(columns, m) ==
    IF m.target \in columns THEN columns
    ELSE IF \E i \in 1..Len(m.alternatives) : m.alternatives[i] \in columns
    THEN LET first == CHOOSE i \in 1..Len(m.alternatives) :
                          /\ m.alternatives[i] \in columns
                          /\ \A j \in 1..(i - 1) : m.alternatives[j] \notin columns
         IN  (columns \ {m.alternatives[first]}) \cup {m.target}
    ELSE columns

NormalizeColumns(columns) ==
    RenameColumn(RenameColumn(RenameColumn(columns, col_mapping[1]),
                              col_mapping[2]), col_mapping[3])

Sentinels == {<<"N", "A", "N">>, <<"N", "O", "N", "E">>, <<"N", "U", "L", "L">>, <<>>}

NormalizeAwb(cell) == upper(strip(PyStr(cell)))

IsSkipped(awb) == awb = <<>> \/ awb \in Sentinels

NewItem(row) ==
    [msku |-> PyStr(row.msku),
     jumlah |-> IF notna(row.jumlah) THEN PyInt(row.jumlah) ELSE 1]

\* A sort that puts the larger key first.
RECURSIVE InsertByMskuDescending(_, _)
InsertByMskuDescending(sorted, item) ==
    IF sorted = <<>> THEN <<item>>
    ELSE IF StrLess(sorted[1].msku, item.msku)
         THEN <<item>> \o sorted
         ELSE <<sorted[1]>> \o InsertByMskuDescending(Tail(sorted), item)

\* list.sort(key=msku): stable, ascending.
RECURSIVE InsertByMsku(_, _)
InsertByMsku(sorted, item) ==
    IF sorted = <<>> THEN <<item>>
    ELSE IF StrLess(item.msku, sorted[1].msku)
         THEN <<item>> \o sorted
         ELSE <<sorted[1]>> \o InsertByMsku(Tail(sorted), item)

RECURSIVE SortByMsku(_)
SortByMsku(items) ==
    IF items = <<>> THEN <<>>
    ELSE InsertByMsku(SortByMsku(SubSeq(items, 1, Len(items) - 1)), items[Len(items)])

-----------------------------------------------------------------------------
(* Label scanner.                                                          *)

\* The result for "no match" (None); like None it is falsy in `not page_awb`.
NoMatch == <<>>

\* Known numbers that match `candidate` by the substring rule, either direction.
SubstringMatches(candidate, known_awbs) ==
    {known \in known_awbs : IsSubstring(candidate, known) \/ IsSubstring(known, candidate)}

\* The values find_matching_awb can return: known_awbs is a set of strings, whose
\* iteration order is not fixed, so the inner loop may meet any matching number first.
RECURSIVE find_matching_awb(_, _)
find_matching_awb(candidates, known_awbs) ==
    IF candidates = <<>> THEN {NoMatch}
    ELSE LET candidate == Head(candidates)
         IN  IF candidate \in known_awbs THEN {candidate}
             ELSE IF SubstringMatches(candidate, known_awbs) # {}
                  THEN SubstringMatches(candidate, known_awbs)
                  ELSE find_matching_awb(Tail(candidates), known_awbs)

-----------------------------------------------------------------------------
(* Layout planner.                                                         *)

row_height == 18

margin_bottom == 30

limit_extra == 25

FallbackClearStart == 300

AnchorMargin == 5

TableGap == 10

MinTableY == 10

ContinuationTop == 45

Max(a, b) == IF a >= b THEN a ELSE b

\* The loop over the text lines of a page; -1 stands for None.  A line is
\* [unboxing, catatan, bottom]: which anchor phrases its text holds, and the
\* largest bbox bottom of its spans.
RECURSIVE ScanLines(_, _, _)
ScanLines(lines, unboxing_y, catatan_y) ==
    IF lines = <<>> THEN <<unboxing_y, catatan_y>>
    ELSE LET line == Head(lines)
             u == IF line.unboxing THEN line.bottom ELSE unboxing_y
             c == IF line.catatan /\ u # -1 THEN line.bottom ELSE catatan_y
         IN  ScanLines(Tail(lines), u, c)

find_clear_start_position(page) ==
    LET found == ScanLines(page.lines, -1, -1)
    IN  IF found[2] # -1 THEN found[2] + AnchorMargin
        ELSE IF found[1] # -1 THEN found[1] + AnchorMargin
        ELSE FallbackClearStart

\* calculate_available_rows with the minimum of the result off by one.
calculate_available_rows_min0(page_height, clear_start_y) ==
    LET available_height == page_height - clear_start_y - margin_bottom
        max_rows == TruncDiv(available_height, row_height) - 1
    IN  Max(0, max_rows)

calculate_available_rows(page_height, clear_start_y) ==
    LET available_height == page_height - clear_start_y - margin_bottom
        max_rows == TruncDiv(available_height, row_height) - 1
    IN  Max(1, max_rows)

\* remaining[i:i + limit_extra] for i in range(0, len(remaining), limit_extra)
\* ExtraChunks with slices one item too long.
RECURSIVE ExtraChunksWide(_)
ExtraChunksWide(remaining) ==
    IF remaining = <<>> THEN <<>>
    ELSE IF Len(remaining) <= limit_extra + 1 THEN <<remaining>>
    ELSE <<SubSeq(remaining, 1, limit_extra + 1)>>
         \o ExtraChunksWide(SubSeq(remaining, limit_extra + 2, Len(remaining)))

RECURSIVE ExtraChunks(_)
ExtraChunks(remaining) ==
    IF remaining = <<>> THEN <<>>
    ELSE IF Len(remaining) <= limit_extra THEN <<remaining>>
    ELSE <<SubSeq(remaining, 1, limit_extra)>>
         \o ExtraChunks(SubSeq(remaining, limit_extra + 1, Len(remaining)))

\* Paginate with the remainder starting one item late.
PaginateSkipping(items, rows) ==
    IF Len(items) <= rows THEN <<items>>
    ELSE <<SubSeq(items, 1, rows)>> \o ExtraChunks(SubSeq(items, rows + 2, Len(items)))

Paginate(items, rows) ==
    IF Len(items) <= rows THEN <<items>>
    ELSE <<SubSeq(items, 1, rows)>> \o ExtraChunks(SubSeq(items, rows + 1, Len(items)))

\* Height of a table of n item rows and the header row.
TableHeight(n) == (n + 1) * row_height

\* Where t.drawOn puts the bottom of the first page's table (bottom-origin y).
FirstTableY(H_pts, clear_start_y, n) ==
    Max(MinTableY, H_pts - clear_start_y - TableHeight(n) - TableGap)

ContinuationTableY(H_pts, n) == H_pts - TableHeight(n) - ContinuationTop

-----------------------------------------------------------------------------
(* Page composer.                                                          *)

Handle(kind, n, k) == [kind |-> kind, n |-> n, k |-> k]

MasterHandle == Handle("master", 0, 0)

\* The output page of an unmatched page: the page copied, nothing drawn.
CopiedPage(src) ==
    [kind |-> "copy", src |-> src, chunk_i |-> 0, chunk |-> <<>>,
     cleared |-> FALSE, clear_top |-> 0, table_y |-> 0, table_h |-> 0]

\* The output page of chunk i of a matched page.
ComposedPage(src, info, i, chunk) ==
    IF i = 0
    THEN [kind |-> "overlay", src |-> src, chunk_i |-> 0, chunk |-> chunk,
          cleared |-> TRUE, clear_top |-> info.height - info.clear_start_y,
          table_y |-> FirstTableY(info.height, info.clear_start_y, Len(chunk)),
          table_h |-> TableHeight(Len(chunk))]
    ELSE [kind |-> "continuation", src |-> src, chunk_i |-> i, chunk |-> chunk,
          cleared |-> FALSE, clear_top |-> 0,
          table_y |-> ContinuationTableY(info.height, Len(chunk)),
          table_h |-> TableHeight(Len(chunk))]

\* The pages an unmatched page record adds to the output: none.
PassThroughNone(src) == <<>>

\* The pages an unmatched page record adds to the output: its copy.
PassThrough(src) == <<CopiedPage(src)>>

\* insert_pdf putting the pages in front.
InsertPdfFront(master, pages) == pages \o master

\* master_doc.insert_pdf(doc): the pages of doc go to the end.
InsertPdf(master, pages) == master \o pages

\* The documents the loop over the chunks of page record src opens (and closes).
ChunkHandles(src, n_chunks) ==
    {Handle("temp", src, 0), Handle("overlay", src, 0)}
        \cup {Handle("new_page", src, i) : i \in 1..(n_chunks - 1)}

IsUnmatched(page_awb, index) == page_awb = NoMatch \/ page_awb \notin DOMAIN index

-----------------------------------------------------------------------------
(* process_labels, step by step.                                           *)

ReadExcel ==
    /\ pc = "read_excel"
    /\ IF ~excel_file.valid
       THEN /\ pc' = "done"
            /\ status' = 500
            /\ UNCHANGED df
       ELSE LET columns == NormalizeColumns(excel_file.columns)
            IN  /\ df' = [columns |-> columns, rows |-> excel_file.rows]
                /\ IF required_cols \ columns # {}
                   THEN pc' = "done" /\ status' = 400
                   ELSE pc' = "load_rows" /\ status' = status
    /\ UNCHANGED <<excel_file, pdf_files, row_i, awb_to_items, all_awbs, pdf_i,
                   page_num, all_pages, master_doc, page_i, matched_count,
                   available_rows, chunks, opened, closed>>

LoadRow ==
    /\ pc = "load_rows"
    /\ row_i <= Len(df.rows)
    /\ LET row == df.rows[row_i]
           awb == NormalizeAwb(row.awb)
           old == IF awb \in DOMAIN awb_to_items THEN awb_to_items[awb] ELSE <<>>
       IN  IF IsSkipped(awb)
           THEN /\ row_i' = row_i + 1
                /\ UNCHANGED <<pc, status, awb_to_items, all_awbs>>
           ELSE /\ all_awbs' = all_awbs \cup {awb}
                /\ IF notna(row.jumlah) /\ IntRaises(row.jumlah)
                   THEN /\ awb_to_items' =
                              [k \in DOMAIN awb_to_items \cup {awb} |->
                                  IF k = awb THEN old ELSE awb_to_items[k]]
                        /\ pc' = "done"
                        /\ status' = 500
                        /\ UNCHANGED row_i
                   ELSE /\ awb_to_items' =
                              [k \in DOMAIN awb_to_items \cup {awb} |->
                                  IF k = awb THEN Append(old, NewItem(row))
                                  ELSE awb_to_items[k]]
                        /\ row_i' = row_i + 1
                        /\ UNCHANGED <<pc, status>>
    /\ UNCHANGED <<excel_file, pdf_files, df, pdf_i, page_num, all_pages,
                   master_doc, page_i, matched_count, available_rows, chunks,
                   opened, closed>>

SortItems ==
    /\ pc = "load_rows"
    /\ row_i > Len(df.rows)
    /\ awb_to_items' = [k \in DOMAIN awb_to_items |-> SortByMsku(awb_to_items[k])]
    /\ pc' = "scan"
    /\ UNCHANGED <<excel_file, pdf_files, status, df, row_i, all_awbs, pdf_i,
                   page_num, all_pages, master_doc, page_i, matched_count,
                   available_rows, chunks, opened, closed>>

OpenPdf ==
    /\ pc = "scan"
    /\ pdf_i <= Len(pdf_files)
    /\ IF ~pdf_files[pdf_i].valid
       THEN /\ pc' = "done"
            /\ status' = 500
            /\ UNCHANGED <<pdf_i, page_num, opened>>
       ELSE /\ opened' = opened \cup {Handle("source", pdf_i, 0)}
            /\ page_num' = 0
            /\ status' = status
            /\ IF Len(pdf_files[pdf_i].pages) = 0
               THEN pc' = pc /\ pdf_i' = pdf_i + 1
               ELSE pc' = "scan_pages" /\ pdf_i' = pdf_i
    /\ UNCHANGED <<excel_file, pdf_files, df, row_i, awb_to_items, all_awbs,
                   all_pages, master_doc, page_i, matched_count, available_rows,
                   chunks, closed>>

ScanPage ==
    /\ pc = "scan_pages"
    /\ LET page == pdf_files[pdf_i].pages[page_num + 1]
       IN  \E matched_awb \in find_matching_awb(page.candidates, all_awbs) :
               all_pages' = Append(all_pages,
                   [page_num |-> page_num, doc |-> pdf_i, width |-> page.width,
                    height |-> page.height, awb |-> matched_awb,
                    clear_start_y |-> find_clear_start_position(page)])
    /\ IF page_num + 1 = Len(pdf_files[pdf_i].pages)
       THEN pc' = "scan" /\ pdf_i' = pdf_i + 1 /\ page_num' = page_num
       ELSE pc' = pc /\ pdf_i' = pdf_i /\ page_num' = page_num + 1
    /\ UNCHANGED <<excel_file, pdf_files, status, df, row_i, awb_to_items,
                   all_awbs, master_doc, page_i, matched_count, available_rows,
                   chunks, opened, closed>>

OpenMaster ==
    /\ pc = "scan"
    /\ pdf_i > Len(pdf_files)
    /\ opened' = opened \cup {MasterHandle}
    /\ master_doc' = <<>>
    /\ matched_count' = 0
    /\ pc' = "compose"
    /\ UNCHANGED <<excel_file, pdf_files, status, df, row_i, awb_to_items,
                   all_awbs, pdf_i, page_num, all_pages, page_i, available_rows,
                   chunks, closed>>

ComposePage ==
    /\ pc = "compose"
    /\ page_i <= Len(all_pages)
    /\ LET page_info == all_pages[page_i]
           page_awb == page_info.awb
       IN  IF IsUnmatched(page_awb, awb_to_items)
           THEN /\ master_doc' = InsertPdf(master_doc, PassThrough(page_i))
                /\ opened' = opened \cup {Handle("temp", page_i, 0)}
                /\ closed' = closed \cup {Handle("temp", page_i, 0)}
                /\ UNCHANGED <<matched_count, available_rows, chunks>>
           ELSE LET items == awb_to_items[page_awb]
                    rows == calculate_available_rows(page_info.height,
                                                     page_info.clear_start_y)
                    cs == Paginate(items, rows)
                IN  /\ matched_count' = matched_count + 1
                    /\ available_rows' = rows
                    /\ chunks' = cs
                    /\ master_doc' = InsertPdf(master_doc,
                           [i \in 1..Len(cs) |->
                               ComposedPage(page_i, page_info, i - 1, cs[i])])
                    /\ opened' = opened \cup ChunkHandles(page_i, Len(cs))
                    /\ closed' = closed \cup ChunkHandles(page_i, Len(cs))
    /\ page_i' = page_i + 1
    /\ UNCHANGED <<excel_file, pdf_files, pc, status, df, row_i, awb_to_items,
                   all_awbs, pdf_i, page_num, all_pages>>

Finish ==
    /\ pc = "compose"
    /\ page_i > Len(all_pages)
    /\ pc' = "done"
    /\ IF Len(master_doc) = 0
       THEN status' = 404 /\ closed' = closed
       ELSE status' = 200 /\ closed' = closed \cup {MasterHandle}
    /\ UNCHANGED <<excel_file, pdf_files, df, row_i, awb_to_items, all_awbs,
                   pdf_i, page_num, all_pages, master_doc, page_i, matched_count,
                   available_rows, chunks, opened>>

Next ==
    \/ ReadExcel
    \/ LoadRow
    \/ SortItems
    \/ OpenPdf
    \/ ScanPage
    \/ OpenMaster
    \/ ComposePage
    \/ Finish

-----------------------------------------------------------------------------
(* Requests: the uploads a call of process_labels is given.                *)

SeqsUpTo(S, n) == UNION {[1..k -> S] : k \in 0..n}

Row(awb, msku, jumlah) == [awb |-> awb, msku |-> msku, jumlah |-> jumlah]

Sheet(columns, rows) == [valid |-> TRUE, columns |-> columns, rows |-> rows]

\* A file read_excel cannot parse.
MalformedSheet == [valid |-> FALSE, columns |-> {}, rows |-> <<>>]

CanonicalColumns == {"AWB/No. Tracking", "MSKU", "Jumlah"}

AliasColumns == {"Resi", "SKU", "Qty", "Nama Toko"}

\* A file fitz.open cannot parse.
CorruptPdf == [valid |-> FALSE, pages |-> <<>>]

Pdf(pages) == [valid |-> TRUE, pages |-> pages]

Line(unboxing, catatan, bottom) ==
    [unboxing |-> unboxing, catatan |-> catatan, bottom |-> bottom]

Page(candidates, lines, height) ==
    [candidates |-> candidates, lines |-> lines, width |-> 420, height |-> height]

SmallHeight == 120

InitWith(sheet, uploads) ==
    /\ excel_file = sheet
    /\ pdf_files = uploads
    /\ pc = "read_excel"
    /\ status = 0
    /\ df = [columns |-> {}, rows |-> <<>>]
    /\ row_i = 1
    /\ awb_to_items = <<>>
    /\ all_awbs = {}
    /\ pdf_i = 1
    /\ page_num = 0
    /\ all_pages = <<>>
    /\ master_doc = <<>>
    /\ page_i = 1
    /\ matched_count = 0
    /\ available_rows = 0
    /\ chunks = <<>>
    /\ opened = {}
    /\ closed = {}

(* Spec: whole requests; a few manifests, every upload of up to MaxPdfs    *)
(* files of up to MaxPages pages.                                          *)

RowA == Row(Str(<<"A", "1", "2">>), Str(<<"b">>), Num(20))

RowB == Row(Str(<<"a", "1", "2", " ">>), Str(<<"a">>), NaN)

RowC == Row(Str(<<" ", "b", "2">>), Str(<<"a">>), Str(<<"3">>))

RowD == Row(Str(<<"A", "1", "3">>), Str(<<"c">>), Num(25))

RowE == Row(Str(<<"A", "1", "2">>), Str(<<"c">>), Str(<<"a", "b", "c">>))

RequestSheets ==
    {Sheet(CanonicalColumns, <<>>),
     Sheet(CanonicalColumns, <<RowA, RowB>>),
     Sheet(AliasColumns, <<RowA, RowC>>),
     Sheet(CanonicalColumns, <<RowD, RowA>>),
     Sheet(CanonicalColumns, <<RowC, RowE>>),
     Sheet({"MSKU", "Qty"}, <<RowA>>),
     MalformedSheet}

\* A label whose text yields a shortened number and then a complete one; its
\* clear region starts 45 points above the lower edge of the page.
LabelPage ==
    Page(<<<<"A", "1">>, <<"B", "2">>>>, <<Line(TRUE, FALSE, 70)>>, SmallHeight)

\* A page with no known number and no anchor phrase.
OtherPage == Page(<<<<"B", "3">>>>, <<>>, 842)

RequestPdfs == {CorruptPdf} \cup {Pdf(ps) : ps \in SeqsUpTo({LabelPage, OtherPage}, MaxPages)}

Init == \E sheet \in RequestSheets, uploads \in SeqsUpTo(RequestPdfs, MaxPdfs) :
            InitWith(sheet, uploads)

Spec == Init /\ [][Next]_vars

(* SpecLoad: the manifest loader over every manifest of up to MaxRows rows. *)

ManifestRows ==
    {Row(Str(<<"a", "1">>), Str(<<"b">>), Num(20)),
     Row(Str(<<" ", "A", "1", " ">>), Str(<<"a">>), NaN),
     Row(Str(<<"A", "1">>), Str(<<"a", "b">>), Str(<<" ", "3", " ">>)),
     Row(Str(<<"B", "2">>), Str(<<"B">>), Num(25)),
     Row(Str(<<"b", "2">>), NaN, Num(10)),
     Row(NaN, Str(<<"a">>), Num(10)),
     Row(Str(<<>>), Str(<<"a">>), Str(<<"a", "b", "c">>)),
     Row(Str(<<" ">>), Str(<<"b">>), Num(10)),
     Row(Str(<<"n", "a", "n">>), Str(<<"a">>), Num(10)),
     Row(Str(<<"N", "o", "n", "e">>), Str(<<"a">>), NaN),
     Row(Str(<<" ", "n", "u", "l", "l">>), Str(<<"a">>), Num(10)),
     Row(Str(<<"A", "1">>), Str(<<"a">>), Str(<<"a", "b", "c">>))}

InitLoad == \E columns \in {CanonicalColumns, AliasColumns},
               rows \in SeqsUpTo(ManifestRows, MaxRows) :
                InitWith(Sheet(columns, rows), <<>>)

NextLoad ==
    \/ ReadExcel
    \/ LoadRow
    \/ SortItems

SpecLoad == InitLoad /\ [][NextLoad]_vars

(* SpecLayout: one label whose tracking number has n manifest rows, n up   *)
(* to MaxItems, on pages of many clear-region positions.                   *)

SkuChars == <<"0", "1", "2", "3", "5", "A", "B", "E", "L", "N">>

\* Distinct SKUs, ascending in i.
SkuOf(i) == <<SkuChars[(i \div 10) + 1], SkuChars[(i % 10) + 1]>>

\* n rows of one tracking number, SKUs descending.
BulkRows(n) ==
    [j \in 1..n |-> Row(Str(<<"A", "1", "2">>), Str(SkuOf(n - j)), Num(10 * j))]

LayoutPages ==
    {Page(<<<<"A", "1", "2">>>>, <<Line(TRUE, FALSE, y)>>, SmallHeight) : y \in 0..MaxAnchorY}
        \cup {Page(<<<<"A", "1", "2">>>>, <<>>, 842),
              Page(<<<<"A", "1", "2">>>>, <<>>, SmallHeight),
              Page(<<<<"A", "1", "2">>>>,
                   <<Line(TRUE, FALSE, 100), Line(FALSE, FALSE, 110),
                     Line(FALSE, TRUE, 115)>>, 842),
              Page(<<<<"A", "1", "2">>>>, <<Line(TRUE, FALSE, 600)>>, 842),
              Page(<<<<"A", "1", "2">>>>,
                   <<Line(FALSE, TRUE, 90), Line(TRUE, TRUE, 115),
                     Line(FALSE, FALSE, 130)>>, 842)}

InitLayout == \E n \in 1..MaxItems, page \in LayoutPages :
                  InitWith(Sheet(CanonicalColumns, BulkRows(n)), <<Pdf(<<page>>)>>)

SpecLayout == InitLayout /\ [][Next]_vars

-----------------------------------------------------------------------------
(* Properties.                                                             *)

\* The candidates extracted from the page of page record p.
CandidatesOf(p) == pdf_files[p.doc].pages[p.page_num + 1].candidates

\* The page record composed last, once one is.
LastComposed == all_pages[page_i - 1]

ComposedMatched ==
    /\ pc \in {"compose", "done"}
    /\ page_i > 1
    /\ ~IsUnmatched(LastComposed.awb, awb_to_items)

RECURSIVE Flatten(_)
Flatten(ss) == IF ss = <<>> THEN <<>> ELSE Head(ss) \o Flatten(Tail(ss))

CeilDiv(a, b) == (a + b - 1) \div b

\* C1: match resolution is two-phase over the whole candidate list: if any
\* candidate is exactly a known tracking number the result is the first such
\* candidate; a substring match is returned only when no candidate is an exact
\* member; otherwise the result is no-match.
C1_TwoPhaseMatch ==
    \A i \in 1..Len(all_pages) :
        LET p == all_pages[i]
            cands == CandidatesOf(p)
            exact == {j \in 1..Len(cands) : cands[j] \in all_awbs}
            partial == {k \in all_awbs : \E j \in 1..Len(cands) :
                            IsSubstring(cands[j], k) \/ IsSubstring(k, cands[j])}
        IN  IF exact # {}
            THEN p.awb = cands[CHOOSE j \in exact : \A l \in exact : j <= l]
            ELSE IF partial # {} THEN p.awb \in partial
            ELSE p.awb = NoMatch

\* C2: the first-page table of a matched page never reaches above the
\* clear-region start: with 0 <= c <= H and a first chunk of n items,
\* 1 <= n <= available rows, the table drawn at y has y + 18*(n+1) <= H - c,
\* also when available_rows was raised to its minimum of 1.
C2_TableInsideClearRegion ==
    \A k \in 1..Len(master_doc) :
        LET o == master_doc[k]
            p == all_pages[o.src]
            n == Len(o.chunk)
        IN  (/\ o.kind = "overlay"
             /\ 0 <= p.clear_start_y
             /\ p.clear_start_y <= p.height
             /\ 1 <= n)
            => o.table_y + 18 * (n + 1) <= p.height - p.clear_start_y

\* C3: chunking is exhaustive and non-overlapping: the chunks of a matched
\* page, concatenated in order, are the SKU-sorted item list of its tracking
\* number, and no chunk is empty.
C3_ChunksExhaustive ==
    ComposedMatched =>
        /\ Flatten(chunks) = awb_to_items[LastComposed.awb]
        /\ \A i \in 1..Len(chunks) : chunks[i] # <<>>

\* A label whose items were split over an overlay page and three continuation pages.
C3_Witness ==
    /\ ComposedMatched
    /\ pc = "done"
    /\ Len(chunks) = 4
    /\ Len(awb_to_items[LastComposed.awb]) = MaxItems

\* C4: chunk sizes follow the pagination policy: N <= available_rows gives one
\* chunk of N items; otherwise the first chunk has available_rows items, every
\* later chunk but the last has 25, the last has 1 to 25, and there are
\* ceil((N - available_rows) / 25) continuation chunks; N = 40 with 10
\* available rows gives sizes 10, 25, 5 and 3 output pages.
C4_ChunkSizes ==
    ComposedMatched =>
        LET N == Len(awb_to_items[LastComposed.awb])
            k == Len(chunks)
        IN  /\ N <= available_rows => k = 1 /\ Len(chunks[1]) = N
            /\ N > available_rows =>
                   /\ Len(chunks[1]) = available_rows
                   /\ \A i \in 2..(k - 1) : Len(chunks[i]) = 25
                   /\ Len(chunks[k]) \in 1..25
                   /\ k - 1 = CeilDiv(N - available_rows, 25)
            /\ (N = 40 /\ available_rows = 10) =>
                   /\ [i \in 1..k |-> Len(chunks[i])] = <<10, 25, 5>>
                   /\ Len(master_doc) = 3

\* The scenario of 40 items with 10 available rows, composed.
C4_Witness ==
    /\ ComposedMatched
    /\ Len(awb_to_items[LastComposed.awb]) = 40
    /\ available_rows = 10
    /\ Len(chunks) = 3

\* C9: calculate_available_rows is at least 1 for every page height and
\* clear start, and is floor((page_height - clear_start_y - 30) / 18) - 1
\* whenever that is at least 1; height 842 with clear start 120 gives 38.
C9_AvailableRowsFloor ==
    ComposedMatched =>
        LET H == LastComposed.height
            c == LastComposed.clear_start_y
            f == ((H - c - 30) \div 18) - 1
        IN  /\ available_rows >= 1
            /\ f >= 1 => available_rows = f
            /\ (H = 842 /\ c = 120) => available_rows = 37

\* C9 as stated, with 38 rows for height 842 and clear start 120.
C9_AsStated ==
    ComposedMatched =>
        LET H == LastComposed.height
            c == LastComposed.clear_start_y
            f == ((H - c - 30) \div 18) - 1
        IN  /\ available_rows >= 1
            /\ (f >= 1 => available_rows = f)
            /\ ((H = 842 /\ c = 120) => available_rows = 38)

\* The page of height 842 whose clear region starts at 120, composed.
C9_Witness ==
    /\ ComposedMatched
    /\ LastComposed.height = 842
    /\ LastComposed.clear_start_y = 120
    /\ available_rows = 37


\* The pages of the output document that come from page record p.
OutputOf(p) == {k \in 1..Len(master_doc) : master_doc[k].src = p}

\* The number of output pages page record p is due.
RECURSIVE SumPages(_)
SumPages(n) ==
    IF n = 0 THEN 0
    ELSE SumPages(n - 1)
         + (IF IsUnmatched(all_pages[n].awb, awb_to_items) THEN 1
            ELSE Len(Paginate(awb_to_items[all_pages[n].awb],
                     calculate_available_rows(all_pages[n].height,
                                              all_pages[n].clear_start_y))))

\* The pages of the uploads, as <<upload, page index>>, in upload and page order.
RECURSIVE PagesUpTo(_)
PagesUpTo(d) ==
    IF d = 0 THEN <<>>
    ELSE PagesUpTo(d - 1) \o [n \in 1..Len(pdf_files[d].pages) |-> <<d, n - 1>>]

\* C5: the output holds the pages in scan order (upload order, then page
\* index); the overlay page of a matched page is followed at once by its
\* continuation pages in chunk order; an unmatched page gives one output page,
\* a matched page one per chunk, and the output page count is their sum.
C5_OutputOrder ==
    /\ pc = "compose" =>
           [i \in 1..Len(all_pages) |-> <<all_pages[i].doc, all_pages[i].page_num>>]
               = PagesUpTo(Len(pdf_files))
    /\ pc \in {"compose", "done"} =>
        /\ Len(master_doc) = SumPages(page_i - 1)
        /\ {master_doc[k].src : k \in 1..Len(master_doc)} = 1..(page_i - 1)
        /\ Len(master_doc) > 0 => master_doc[1].src = 1 /\ master_doc[1].chunk_i = 0
        /\ \A k \in 1..(Len(master_doc) - 1) :
               LET a == master_doc[k]
                   b == master_doc[k + 1]
               IN  \/ /\ b.src = a.src
                      /\ a.kind \in {"overlay", "continuation"}
                      /\ b.kind = "continuation"
                      /\ b.chunk_i = a.chunk_i + 1
                   \/ /\ b.src = a.src + 1
                      /\ b.chunk_i = 0
        /\ \A p \in 1..(page_i - 1) :
               LET first == master_doc[CHOOSE k \in OutputOf(p) :
                                           \A l \in OutputOf(p) : k <= l]
               IN  IF IsUnmatched(all_pages[p].awb, awb_to_items)
                   THEN first.kind = "copy" /\ Cardinality(OutputOf(p)) = 1
                   ELSE first.kind = "overlay"

\* A matched page of the first upload with a continuation page, then a page of
\* the second upload.
C5_Witness ==
    /\ pc = "done"
    /\ status = 200
    /\ \E k \in 1..(Len(master_doc) - 2) :
           /\ master_doc[k].kind = "overlay"
           /\ master_doc[k + 1].kind = "continuation"
           /\ master_doc[k + 2].src = master_doc[k].src + 1
           /\ all_pages[master_doc[k + 2].src].doc = 2

\* C6: a manifest row whose quantity cell is blank or non-numeric gets
\* quantity 1 in the tracking index and never makes the request fail.
C6_QuantityDefaultsToOne ==
    \A j \in 1..Len(df.rows) :
        LET row == df.rows[j]
            awb == NormalizeAwb(row.awb)
            unusable == \/ row.jumlah.t = "nan"
                        \/ /\ row.jumlah.t = "str"
                           /\ \/ strip(row.jumlah.s) = <<>>
                              \/ \E i \in 1..Len(row.jumlah.s) :
                                     /\ row.jumlah.s[i] \notin Whitespace
                                     /\ ~IsDigit(row.jumlah.s[i])
        IN  (~IsSkipped(awb) /\ unusable /\ pc # "read_excel") =>
                /\ ~(status = 500 /\ row_i = j)
                /\ j < row_i =>
                       \E i \in 1..Len(awb_to_items[awb]) :
                           /\ awb_to_items[awb][i].msku = PyStr(row.msku)
                           /\ awb_to_items[awb][i].jumlah = 1

TotalPages == Len(PagesUpTo(Len(pdf_files)))

\* C7: with the manifest loaded and no library exception, the request ends
\* 404 exactly when the uploads hold zero pages in total, and succeeds
\* otherwise; a page whose tracking number is not resolved is copied through
\* as exactly one unmodified output page (nothing cleared, no table).
C7_PassThrough ==
    /\ (/\ pc = "done"
        /\ excel_file.valid
        /\ required_cols \subseteq df.columns
        /\ row_i > Len(df.rows)
        /\ \A d \in 1..Len(pdf_files) : pdf_files[d].valid)
       => /\ status = 404 <=> TotalPages = 0
          /\ TotalPages >= 1 => status = 200
    /\ pc \in {"compose", "done"} =>
           \A p \in 1..(page_i - 1) :
               IsUnmatched(all_pages[p].awb, awb_to_items) =>
                   /\ Cardinality(OutputOf(p)) = 1
                   /\ \A k \in OutputOf(p) :
                          /\ master_doc[k].kind = "copy"
                          /\ ~master_doc[k].cleared
                          /\ master_doc[k].table_h = 0

\* A request whose pages all go unmatched, ended with the pages copied through.
C7_Witness ==
    /\ pc = "done"
    /\ status = 200
    /\ matched_count = 0
    /\ Len(master_doc) = TotalPages
    /\ TotalPages >= 2

\* C8: every document handle opened during a request is closed when the call
\* ends, on the success path and on the 400, 404 and 500 paths.
C8_AllClosed == pc = "done" => opened \ closed = {}


\* s without its leading and trailing whitespace, by the positions of its
\* first and last other characters.
Trimmed(s) ==
    LET solid == {i \in 1..Len(s) : s[i] \notin Whitespace}
    IN  IF solid = {} THEN <<>>
        ELSE SubSeq(s, CHOOSE i \in solid : \A j \in solid : i <= j,
                       CHOOSE i \in solid : \A j \in solid : i >= j)

\* The tracking value of row j of the data frame, trimmed and upper-cased.
TrackingOf(j) == upper(Trimmed(PyStr(df.rows[j].awb)))

\* The rows of the data frame that contribute to the index.
Contributing ==
    {j \in 1..Len(df.rows) :
        TrackingOf(j) \notin {<<>>, <<"N", "A", "N">>, <<"N", "O", "N", "E">>,
                              <<"N", "U", "L", "L">>}}

\* C10: after the manifest loader has run, (1) the keys of the tracking index
\* are the trimmed, upper-cased tracking values of the rows whose value is not
\* "", "NAN", "NONE" or "NULL"; (2) each key's list holds one item per
\* contributing row; (3) each list is in ascending SKU order; and the
\* known-number set equals the key set.
C10_TrackingIndex ==
    pc = "scan" =>
        /\ DOMAIN awb_to_items = {TrackingOf(j) : j \in Contributing}
        /\ \A awb \in DOMAIN awb_to_items :
               LET items == awb_to_items[awb]
                   from == {j \in Contributing : TrackingOf(j) = awb}
               IN  /\ Len(items) = Cardinality(from)
                   /\ \A j \in from :
                          Cardinality({i \in 1..Len(items) : items[i] = NewItem(df.rows[j])})
                              = Cardinality({l \in from : NewItem(df.rows[l]) = NewItem(df.rows[j])})
                   /\ \A i \in 1..(Len(items) - 1) :
                          ~StrLess(items[i + 1].msku, items[i].msku)
        /\ all_awbs = DOMAIN awb_to_items

\* A loaded manifest with a skipped row and a tracking number whose rows came
\* in descending SKU order.
C10_Witness ==
    /\ pc = "scan"
    /\ Len(df.rows) = 3
    /\ Cardinality(Contributing) = 2
    /\ \E awb \in DOMAIN awb_to_items :
           /\ Len(awb_to_items[awb]) = 2
           /\ \E j \in Contributing, l \in Contributing :
                  /\ j < l
                  /\ StrLess(PyStr(df.rows[l].msku), PyStr(df.rows[j].msku))

====
